---- MODULE Spec2Model ----
(***************************************************************************)
(* The Skills Matrix survey of src/main.py: the per-session points ledger  *)
(* kept in st.session_state, the script run main() that follows every      *)
(* user interaction, and the CSV Response Store shared by all sessions.    *)
(*                                                                         *)
(* Framework behaviour the translation relies on (Streamlit):              *)
(*  - every interaction stores the widget's new value, runs the widget's   *)
(*    on_change callback, then runs the whole script main() once;          *)
(*  - a widget that a script run does not render loses its state at the    *)
(*    end of that run (its key leaves st.session_state, a text input is    *)
(*    blank again when it is next rendered);                               *)
(*  - a number input accepts only values in [min_value, max_value] of its  *)
(*    last render, and st.number_input raises when its value argument is   *)
(*    outside that range;                                                  *)
(*  - each session runs its script in its own thread.                      *)
(* A session_state key that is absent is modelled by the value every       *)
(* reader of the key substitutes for it: 0 for total_points and for an     *)
(* input_<skill> key, the all-zero mapping for skills, False for           *)
(* form_submitted.                                                         *)
(* Not modelled: show_90_points_modal, which selects what is displayed and  *)
(* is read by nothing else; the password of the admin page, whose user is  *)
(* taken to have been validated (password_correct is set); the charts of   *)
(* the dashboard.  The Response ID is a token that is new for every record *)
(* (next_id), the timestamp is left out.  A tier label is modelled by its  *)
(* word, without the coloured dot in front of it.                          *)
(***************************************************************************)
EXTENDS Integers, Sequences, FiniteSets, TLC

(* ---------------------------------------------------------------- bounds *)
NumSkills == 10
MaxSubmits == 2

(* ------------------------------------------------------------- constants *)
MAX_TOTAL_POINTS == 90
MAX_POINTS_PER_SKILL == 10
TEST_EMAIL == "aavadhan@umich.edu"

Skills == 1..NumSkills
Sessions == {1, 2}
Outcomes == BOOLEAN
EditValues == {0, MAX_POINTS_PER_SKILL}
Names == {"", "Ann"}
Emails == {"", TEST_EMAIL, "a@x.com", "N/A"}
Pages == {"form", "admin"}
(* What a user may try to put into a number input. *)
TypedValues == (0 - 1)..(MAX_POINTS_PER_SKILL + 1)

NoWidget == 0 - 1
NaN == "<NaN>"
NA_VALUES == {"", "N/A", "NA", "NULL", "NaN", "n/a", "nan", "null"}

ZeroAlloc == [k \in Skills |-> 0]
NoWidgets == [k \in Skills |-> NoWidget]
Min(a, b) == IF a <= b THEN a ELSE b
Abs(a) == IF a < 0 THEN 0 - a ELSE a

RECURSIVE SumTo(_, _)
SumTo(f, n) == IF n = 0 THEN 0 ELSE f[n] + SumTo(f, n - 1)
SumOf(f) == SumTo(f, NumSkills)

VARIABLES ss, response_data, responses_df, file, next_id
vars == <<ss, response_data, responses_df, file, next_id>>

(* ------------------------------------------------------ the Response Store *)
(* A row of the CSV file: the text of its cells.  session is not a column: *)
(* it records which session wrote the row.                                 *)
NoRow == [id |-> 0, name |-> "", email |-> "", skills |-> ZeroAlloc, session |-> 0]

(* pd.read_csv turns a cell whose text is one of its NA markers into NaN;  *)
(* to_csv writes NaN as the empty string.  Integer cells read back as the  *)
(* integers written.                                                       *)
ParseCell(c) == IF c \in NA_VALUES THEN NaN ELSE c
FormatCell(c) == IF c = NaN THEN "" ELSE c
ParseRow(r) == [r EXCEPT !.name = ParseCell(r.name), !.email = ParseCell(r.email)]
FormatRow(r) == [r EXCEPT !.name = FormatCell(r.name), !.email = FormatCell(r.email)]

(* load_responses: the parsed rows, or an empty frame when reading raises. *)
load_responses(f, ok) == IF ok THEN [i \in 1..Len(f) |-> ParseRow(f[i])] ELSE <<>>

(* to_csv of pd.concat([responses_df, new_response]).                      *)
to_csv(df, new) == [i \in 1..Len(df) |-> FormatRow(df[i])] \o <<FormatRow(new)>>

is_email_unique(email, f, ok) ==
    IF email = TEST_EMAIL THEN TRUE
    ELSE LET df == load_responses(f, ok)
         IN  IF df # <<>> THEN \A i \in 1..Len(df) : df[i].email # email
             ELSE TRUE

(* ----------------------------------------------------------- the dashboard *)
Tiers == {"Primary", "Secondary", "Limited"}

(* The label with >= replaced by > at every threshold. *)
get_expertise_level_strict(value) ==
    IF value > 8 THEN "Primary"
    ELSE IF value > 3 THEN "Secondary"
    ELSE IF value > 1 THEN "Limited"
    ELSE ""

(* Lines 296-304: the label shown beside a number input. *)
get_expertise_level(value) ==
    IF value >= 8 THEN "Primary"
    ELSE IF value >= 3 THEN "Secondary"
    ELSE IF value >= 1 THEN "Limited"
    ELSE ""

(* The counts of one response with the zeros counted as Limited. *)
get_expertise_counts_from_zero(row) ==
    [Primary |-> Cardinality({k \in Skills : row[k] >= 8}),
     Secondary |-> Cardinality({k \in Skills : 3 <= row[k] /\ row[k] < 8}),
     Limited |-> Cardinality({k \in Skills : 0 <= row[k] /\ row[k] < 3})]

(* Lines 144-152: the counts of one response, over its skill columns (the   *)
(* cells are integers, so every cell passes the isinstance test).           *)
get_expertise_counts(row) ==
    [Primary |-> Cardinality({k \in Skills : row[k] >= 8}),
     Secondary |-> Cardinality({k \in Skills : 3 <= row[k] /\ row[k] < 8}),
     Limited |-> Cardinality({k \in Skills : 1 <= row[k] /\ row[k] < 3})]

(* Lines 175-177: the counts of one skill over all responses, from which    *)
(* the top-skills table takes its maxima.                                   *)
skill_counts(df, k) ==
    [Primary |-> Cardinality({i \in 1..Len(df) : df[i].skills[k] >= 8}),
     Secondary |-> Cardinality({i \in 1..Len(df) :
                                   df[i].skills[k] >= 3 /\ df[i].skills[k] < 8}),
     Limited |-> Cardinality({i \in 1..Len(df) :
                                 df[i].skills[k] > 0 /\ df[i].skills[k] < 3})]

NoLevels == [k \in Skills |-> ""]
NoDashboard == [dist |-> <<>>, top |-> [k \in Skills |-> [t \in Tiers |-> 0]]]

(* show_admin_page: the two tier tables of the Skills Analysis tab, or       *)
(* nothing when there is no response to show.                               *)
show_admin_page(f, ok) ==
    LET df == load_responses(f, ok)
    IN  IF df = <<>>
        THEN NoDashboard
        ELSE [dist |-> [i \in 1..Len(df) |-> get_expertise_counts(df[i].skills)],
              top |-> [k \in Skills |-> skill_counts(df, k)]]

(* ------------------------------------------------------------ the session *)
(* level and dashboard are what the last script run put on the page: the    *)
(* tier label beside each number input, and the admin page's tier tables.   *)
FreshSession ==
    [page |-> "form", submitter_name |-> "", submitter_email |-> "",
     total_points |-> 0, skills |-> ZeroAlloc, form_submitted |-> FALSE,
     input |-> ZeroAlloc, max_value |-> NoWidgets,
     level |-> NoLevels, dashboard |-> NoDashboard,
     view |-> "identity", error |-> "none", save_result |-> "none", pc |-> "idle"]

(* on_change callback of every number input. *)
update_total_points(st) == [st EXCEPT !.total_points = SumOf(st.input)]

(* The ceiling without the skill's own points added back. *)
points_available_own_counted(st, k) ==
    Min(MAX_POINTS_PER_SKILL, MAX_TOTAL_POINTS - st.total_points)

(* The ceiling from the remaining budget alone. *)
points_available_budget_only(st, k) ==
    MAX_TOTAL_POINTS - (st.total_points - st.input[k])

(* The ceiling from the per-skill maximum alone. *)
points_available_per_skill_only(st, k) == MAX_POINTS_PER_SKILL

(* Lines 416-418: the ceiling offered for skill k in this render. *)
points_available(st, k) ==
    Min(MAX_POINTS_PER_SKILL, MAX_TOTAL_POINTS - (st.total_points - st.input[k]))

(* st.number_input(min_value=0, max_value=points_available, value=current)  *)
(* raises unless 0 <= current <= points_available.                          *)
number_input_ok(st, k) ==
    /\ 0 <= points_available(st, k)
    /\ 0 <= st.input[k]
    /\ st.input[k] <= points_available(st, k)

(* Line 437 reads the loop variable value: the value the number input of    *)
(* skill k returned, or, when that widget raised, the one left by the last  *)
(* widget before it that did not (none before the first skill: 0 here).     *)
RECURSIVE shown_value(_, _)
shown_value(st, k) ==
    IF k = 0 THEN 0
    ELSE IF number_input_ok(st, k) THEN st.input[k]
    ELSE shown_value(st, k - 1)

(* Lines 409-438: one number input per skill with its tier label; a widget  *)
(* that raised is not rendered and leaves skills[k] as it was.              *)
render_inputs(st) ==
    [st EXCEPT
       !.level = [k \in Skills |-> get_expertise_level(shown_value(st, k))],
       !.skills = [k \in Skills |-> IF number_input_ok(st, k) THEN st.input[k] ELSE st.skills[k]],
       !.max_value = [k \in Skills |-> IF number_input_ok(st, k) THEN points_available(st, k) ELSE NoWidget],
       !.input = [k \in Skills |-> IF number_input_ok(st, k) THEN st.input[k] ELSE 0]]

(* The widgets of the form are not rendered in this run. *)
drop_inputs(st) ==
    [st EXCEPT !.input = ZeroAlloc, !.max_value = NoWidgets, !.level = NoLevels]

(* The "at most MAX_TOTAL_POINTS" policy in place of the exact one. *)
total_mismatch_only_above(st) == st.total_points > MAX_TOTAL_POINTS

(* Line 446. *)
total_mismatch(st) == 10 * Abs(st.total_points - MAX_TOTAL_POINTS) > 1

(* show_skills_form without the early return of a submitted form. *)
show_skills_form_no_gate(st, click) ==
    LET r == [render_inputs(st) EXCEPT !.view = "form"]
    IN  IF click = "submit"
        THEN IF total_mismatch(r)
             THEN [r EXCEPT !.error = "total"]
             ELSE [r EXCEPT !.pc = "load"]
        ELSE r

(* show_skills_form with a Close Survey that deletes form_submitted only. *)
show_skills_form_close_keeps_points(st, click) ==
    IF st.form_submitted
    THEN IF click = "close"
         THEN [drop_inputs(st) EXCEPT !.form_submitted = FALSE, !.view = "closed"]
         ELSE [drop_inputs(st) EXCEPT !.view = "thanks"]
    ELSE LET r == [render_inputs(st) EXCEPT !.view = "form"]
         IN  IF click = "submit"
             THEN IF total_mismatch(r)
                  THEN [r EXCEPT !.error = "total"]
                  ELSE [r EXCEPT !.pc = "load"]
             ELSE r

(* show_skills_form, up to the call of save_response (pc = "load"). *)
show_skills_form(st, click) ==
    IF st.form_submitted
    THEN IF click = "close"
         THEN [drop_inputs(st) EXCEPT !.total_points = 0, !.skills = ZeroAlloc,
                                      !.form_submitted = FALSE, !.view = "closed"]
         ELSE [drop_inputs(st) EXCEPT !.view = "thanks"]
    ELSE LET r == [render_inputs(st) EXCEPT !.view = "form"]
         IN  IF click = "submit"
             THEN IF total_mismatch(r)
                  THEN [r EXCEPT !.error = "total"]
                  ELSE [r EXCEPT !.pc = "load"]
             ELSE r

(* main() without the return on a blank name or email. *)
main_no_identity_gate(st0, f, ok, click) ==
    LET st == [st0 EXCEPT !.error = "none", !.save_result = "none",
                          !.dashboard = NoDashboard]
    IN  IF st.page = "admin"
        THEN [drop_inputs(st) EXCEPT !.view = "admin", !.submitter_name = "",
                                     !.submitter_email = "",
                                     !.dashboard = show_admin_page(f, ok)]
        ELSE IF ~is_email_unique(st.submitter_email, f, ok)
        THEN [drop_inputs(st) EXCEPT !.view = "dup"]
        ELSE show_skills_form(st, click)

(* main(): one script run.  The admin page renders none of the form's       *)
(* widgets, the name and email inputs included; with a blank name or email, *)
(* or an email that is_email_unique refuses, main returns before            *)
(* show_skills_form.  error and save_result describe the current run only.  *)
main(st0, f, ok, click) ==
    LET st == [st0 EXCEPT !.error = "none", !.save_result = "none",
                          !.dashboard = NoDashboard]
    IN  IF st.page = "admin"
        THEN [drop_inputs(st) EXCEPT !.view = "admin", !.submitter_name = "",
                                     !.submitter_email = "",
                                     !.dashboard = show_admin_page(f, ok)]
        ELSE IF st.submitter_email = "" \/ st.submitter_name = ""
        THEN [drop_inputs(st) EXCEPT !.view = "identity"]
        ELSE IF ~is_email_unique(st.submitter_email, f, ok)
        THEN [drop_inputs(st) EXCEPT !.view = "dup"]
        ELSE show_skills_form(st, click)

(* ---------------------------------------------------------------- actions *)
Idle(s) == ss[s].pc = "idle"
Locals == <<response_data, responses_df>>

(* A user interaction: the widget takes its new value, then main() runs.    *)
(* ok tells whether the read of the file in this run succeeds.              *)
SetPage(s, p, ok) ==
    /\ Idle(s)
    /\ p # ss[s].page
    /\ ss' = [ss EXCEPT ![s] = main([@ EXCEPT !.page = p], file, ok, "none")]
    /\ UNCHANGED <<Locals, file, next_id>>

SetName(s, n, ok) ==
    /\ Idle(s)
    /\ ss[s].view # "admin"
    /\ n # ss[s].submitter_name
    /\ ss' = [ss EXCEPT ![s] = main([@ EXCEPT !.submitter_name = n], file, ok, "none")]
    /\ UNCHANGED <<Locals, file, next_id>>

SetEmail(s, e, ok) ==
    /\ Idle(s)
    /\ ss[s].view # "admin"
    /\ e # ss[s].submitter_email
    /\ ss' = [ss EXCEPT ![s] = main([@ EXCEPT !.submitter_email = e], file, ok, "none")]
    /\ UNCHANGED <<Locals, file, next_id>>

(* The number input of skill k is on the page and takes the new value v:    *)
(* the widget holds v within [min_value, max_value] of its last render.     *)
EditAccepted(s, k, v) ==
    /\ Idle(s)
    /\ ss[s].view = "form"
    /\ ss[s].max_value[k] # NoWidget
    /\ 0 <= v /\ v <= ss[s].max_value[k]
    /\ v # ss[s].input[k]

Edit(s, k, v, ok) ==
    /\ EditAccepted(s, k, v)
    /\ ss' = [ss EXCEPT ![s] =
                 main(update_total_points([@ EXCEPT !.input[k] = v]), file, ok, "none")]
    /\ UNCHANGED <<Locals, file, next_id>>

(* The submit button: the script runs again from the top; when the total    *)
(* check passes, response_data is built and save_response is entered.       *)
(* next_id <= MaxSubmits bounds the number of records built.                *)
ClickSubmit(s, ok) ==
    /\ Idle(s)
    /\ ss[s].view = "form"
    /\ next_id <= MaxSubmits
    /\ LET st == main(ss[s], file, ok, "submit")
       IN  /\ ss' = [ss EXCEPT ![s] = st]
           /\ IF st.pc = "load"
              THEN /\ response_data' = [response_data EXCEPT ![s] =
                          [id |-> next_id, name |-> st.submitter_name,
                           email |-> st.submitter_email, skills |-> st.skills,
                           session |-> s]]
                   /\ next_id' = next_id + 1
              ELSE UNCHANGED <<response_data, next_id>>
    /\ UNCHANGED <<responses_df, file>>

(* The submit button pressed while the name or email field still has the   *)
(* focus with a changed text: the field commits its text n, e when it loses *)
(* the focus to the button, and the script run that sees the click reads    *)
(* the new texts at lines 549-550.                                          *)
ClickSubmitTyped(s, n, e, ok) ==
    /\ Idle(s)
    /\ ss[s].view = "form"
    /\ next_id <= MaxSubmits
    /\ n # ss[s].submitter_name \/ e # ss[s].submitter_email
    /\ LET st == main([ss[s] EXCEPT !.submitter_name = n, !.submitter_email = e],
                      file, ok, "submit")
       IN  /\ ss' = [ss EXCEPT ![s] = st]
           /\ IF st.pc = "load"
              THEN /\ response_data' = [response_data EXCEPT ![s] =
                          [id |-> next_id, name |-> st.submitter_name,
                           email |-> st.submitter_email, skills |-> st.skills,
                           session |-> s]]
                   /\ next_id' = next_id + 1
              ELSE UNCHANGED <<response_data, next_id>>
    /\ UNCHANGED <<responses_df, file>>

(* save_response, line 34: the rows of the file as they are now. *)
SaveLoad(s, ok) ==
    /\ ss[s].pc = "load"
    /\ responses_df' = [responses_df EXCEPT ![s] = load_responses(file, ok)]
    /\ ss' = [ss EXCEPT ![s].pc = "write"]
    /\ UNCHANGED <<response_data, file, next_id>>

(* SaveWrite with form_submitted set before the result of save_response is  *)
(* looked at.                                                               *)
SaveWrite_eager(s, ok) ==
    /\ ss[s].pc = "write"
    /\ IF ok
       THEN /\ file' = to_csv(responses_df[s], response_data[s])
            /\ ss' = [ss EXCEPT ![s].pc = "rerun", ![s].save_result = "ok",
                                ![s].form_submitted = TRUE]
       ELSE /\ file' = file
            /\ ss' = [ss EXCEPT ![s].pc = "idle", ![s].save_result = "failed",
                                ![s].error = "save", ![s].form_submitted = TRUE]
    /\ response_data' = [response_data EXCEPT ![s] = NoRow]
    /\ responses_df' = [responses_df EXCEPT ![s] = <<>>]
    /\ UNCHANGED next_id

(* SaveWrite as an atomic compare-and-append: the email is checked again    *)
(* against the file as it is when the write happens.                        *)
SaveWrite_atomic(s, ok) ==
    /\ ss[s].pc = "write"
    /\ IF ok /\ is_email_unique(response_data[s].email, file, TRUE)
       THEN /\ file' = to_csv(load_responses(file, TRUE), response_data[s])
            /\ ss' = [ss EXCEPT ![s].pc = "rerun", ![s].save_result = "ok",
                                ![s].form_submitted = TRUE]
       ELSE /\ file' = file
            /\ ss' = [ss EXCEPT ![s].pc = "idle", ![s].save_result = "failed",
                                ![s].error = "save"]
    /\ response_data' = [response_data EXCEPT ![s] = NoRow]
    /\ responses_df' = [responses_df EXCEPT ![s] = <<>>]
    /\ UNCHANGED next_id

(* Lines 458-463 with the write of save_response (lines 53-60): the file is *)
(* replaced by the rows loaded earlier plus the new row.                    *)
SaveWrite(s, ok) ==
    /\ ss[s].pc = "write"
    /\ IF ok
       THEN /\ file' = to_csv(responses_df[s], response_data[s])
            /\ ss' = [ss EXCEPT ![s].pc = "rerun", ![s].save_result = "ok",
                                ![s].form_submitted = TRUE]
       ELSE /\ file' = file
            /\ ss' = [ss EXCEPT ![s].pc = "idle", ![s].save_result = "failed",
                                ![s].error = "save"]
    /\ response_data' = [response_data EXCEPT ![s] = NoRow]
    /\ responses_df' = [responses_df EXCEPT ![s] = <<>>]
    /\ UNCHANGED next_id

(* st.experimental_rerun() after a successful save: one more script run.    *)
(* save_result keeps "ok" through this run to mark it as the render that    *)
(* follows the acceptance.                                                  *)
Rerun(s, ok) ==
    /\ ss[s].pc = "rerun"
    /\ ss' = [ss EXCEPT ![s] = [main([@ EXCEPT !.pc = "idle"], file, ok, "none")
                                  EXCEPT !.save_result = "ok"]]
    /\ UNCHANGED <<Locals, file, next_id>>

(* The Close Survey button (it stays on the page after "Survey closed").    *)
(* next_id <= MaxSubmits: no further survey is started once no record can   *)
(* be built any more.                                                       *)
ClickClose(s, ok) ==
    /\ Idle(s)
    /\ ss[s].view \in {"thanks", "closed"}
    /\ next_id <= MaxSubmits
    /\ ss' = [ss EXCEPT ![s] = main(@, file, ok, "close")]
    /\ UNCHANGED <<Locals, file, next_id>>

(* ---------------------------------------------------------- specifications *)
NoLocals ==
    /\ response_data = [s \in Sessions |-> NoRow]
    /\ responses_df = [s \in Sessions |-> <<>>]

(* Every session has just been opened: the first script run has rendered    *)
(* the name and email inputs; the store is empty.                           *)
Init ==
    /\ ss = [s \in Sessions |-> FreshSession]
    /\ NoLocals
    /\ file = <<>>
    /\ next_id = 1

(* One user, one survey: every interaction of the form and admin pages; the *)
(* reads and the write of a submission may fail.                            *)
Next ==
    \/ \E p \in Pages : SetPage(1, p, TRUE)
    \/ \E n \in Names : SetName(1, n, TRUE)
    \/ \E e \in {"", TEST_EMAIL, "a@x.com"} : SetEmail(1, e, TRUE)
    \/ \E k \in Skills, v \in EditValues : Edit(1, k, v, TRUE)
    \/ ClickSubmit(1, TRUE)
    \/ \E ok \in Outcomes : SaveLoad(1, ok)
    \/ \E ok \in Outcomes : SaveWrite(1, ok)
    \/ \E ok \in Outcomes : Rerun(1, ok)

Spec == Init /\ [][Next]_vars

(* A session whose user has entered a name and the email e and has given    *)
(* MAX_POINTS_PER_SKILL points to each of the first PrefilledCount skills,  *)
(* as the last script run rendered it.                                      *)
PrefilledCount == (MAX_TOTAL_POINTS \div MAX_POINTS_PER_SKILL) - 1
LateSkills == {k \in Skills : k > PrefilledCount}
PrefilledInput ==
    [k \in Skills |-> IF k <= PrefilledCount THEN MAX_POINTS_PER_SKILL ELSE 0]
Prefilled(e) ==
    [render_inputs(update_total_points(
        [FreshSession EXCEPT !.submitter_name = "Ann", !.submitter_email = e,
                             !.input = PrefilledInput]))
     EXCEPT !.view = "form"]

(* The ledger in detail: one user who has allocated the first skills and    *)
(* now enters every value the widgets accept into the remaining ones; no    *)
(* read or write fails.                                                     *)
InitLedger ==
    /\ \E e \in {TEST_EMAIL, "a@x.com"} :
          ss = [s \in Sessions |-> IF s = 1 THEN Prefilled(e) ELSE FreshSession]
    /\ NoLocals
    /\ file = <<>>
    /\ next_id = 1

NextLedger ==
    \/ \E p \in Pages : SetPage(1, p, TRUE)
    \/ \E n \in Names : SetName(1, n, TRUE)
    \/ \E e \in {"", TEST_EMAIL, "a@x.com"} : SetEmail(1, e, TRUE)
    \/ \E k \in LateSkills, v \in 0..MAX_POINTS_PER_SKILL : Edit(1, k, v, TRUE)
    \/ ClickSubmit(1, TRUE)
    \/ SaveLoad(1, TRUE)
    \/ SaveWrite(1, TRUE)
    \/ Rerun(1, TRUE)

SpecLedger == InitLedger /\ [][NextLedger]_vars

(* The input boundary: one user who has entered a name and the email e and  *)
(* has allocated nothing yet types anything, in range or not, into the      *)
(* first skills; the budget is far from used up.                            *)
Opened(e) ==
    [render_inputs([FreshSession EXCEPT !.submitter_name = "Ann", !.submitter_email = e])
     EXCEPT !.view = "form"]
EntrySkills == {k \in Skills : k <= 2}

InitEntry ==
    /\ \E e \in {TEST_EMAIL, "a@x.com"} :
          ss = [s \in Sessions |-> IF s = 1 THEN Opened(e) ELSE FreshSession]
    /\ NoLocals
    /\ file = <<>>
    /\ next_id = 1

NextEntry ==
    \/ \E p \in Pages : SetPage(1, p, TRUE)
    \/ \E n \in Names : SetName(1, n, TRUE)
    \/ \E e \in {"", TEST_EMAIL, "a@x.com"} : SetEmail(1, e, TRUE)
    \/ \E k \in EntrySkills, v \in TypedValues : Edit(1, k, v, TRUE)
    \/ ClickSubmit(1, TRUE)

SpecEntry == InitEntry /\ [][NextEntry]_vars

(* The identity fields at submit: one user with the first skills allocated  *)
(* who never leaves the name or the email blank, except by clearing a field *)
(* right before pressing the submit button.                                 *)
TypedNames == {"", "Ann", "Bo"}
TypedEmails == {"", TEST_EMAIL, "a@x.com"}

NextIdentity ==
    \/ \E n \in TypedNames \ {""} : SetName(1, n, TRUE)
    \/ \E e \in TypedEmails \ {""} : SetEmail(1, e, TRUE)
    \/ \E k \in LateSkills, v \in EditValues : Edit(1, k, v, TRUE)
    \/ ClickSubmit(1, TRUE)
    \/ \E n \in TypedNames, e \in TypedEmails : ClickSubmitTyped(1, n, e, TRUE)
    \/ SaveLoad(1, TRUE)
    \/ SaveWrite(1, TRUE)
    \/ Rerun(1, TRUE)

SpecIdentity == InitLedger /\ [][NextIdentity]_vars

(* One user through several surveys: the user fills the skills in catalog   *)
(* order, submits, closes the survey and starts again; a read or a write of *)
(* the file may fail.                                                       *)
InOrder(s, k) ==
    /\ ss[s].input[k] = 0
    /\ \A j \in Skills : j < k => ss[s].input[j] # 0

NextLives ==
    \E ok \in Outcomes :
        \/ \E n \in Names : SetName(1, n, ok)
        \/ \E e \in {TEST_EMAIL, "a@x.com"} : SetEmail(1, e, ok)
        \/ \E k \in Skills : InOrder(1, k) /\ Edit(1, k, MAX_POINTS_PER_SKILL, ok)
        \/ ClickSubmit(1, ok)
        \/ SaveLoad(1, ok)
        \/ SaveWrite(1, ok)
        \/ Rerun(1, ok)
        \/ ClickClose(1, ok)

SpecLives == Init /\ [][NextLives]_vars

(* Two users at once, each with the first skills allocated and an email of  *)
(* the set E entered.                                                       *)
InitTwo(E) ==
    /\ \E e1, e2 \in E :
          ss = [s \in Sessions |-> IF s = 1 THEN Prefilled(e1) ELSE Prefilled(e2)]
    /\ NoLocals
    /\ file = <<>>
    /\ next_id = 1

(* No other session is inside a script run that saves. *)
Quiet(s) == \A t \in Sessions \ {s} : Idle(t)

(* Sessions one after another: a script run that saves is not overlapped by *)
(* any step of another session; no read or write fails.                     *)
InitSeq == InitTwo({TEST_EMAIL, "a@x.com", "N/A"})

NextSeq ==
    \E s \in Sessions :
        \/ \E e \in {TEST_EMAIL, "a@x.com", "N/A"} : Quiet(s) /\ SetEmail(s, e, TRUE)
        \/ \E k \in LateSkills, v \in EditValues : Quiet(s) /\ Edit(s, k, v, TRUE)
        \/ Quiet(s) /\ ClickSubmit(s, TRUE)
        \/ Quiet(s) /\ SaveLoad(s, TRUE)
        \/ Quiet(s) /\ SaveWrite(s, TRUE)
        \/ Quiet(s) /\ Rerun(s, TRUE)

SpecSeq == InitSeq /\ [][NextSeq]_vars

(* Concurrent sessions: the steps of the sessions' script runs interleave;  *)
(* no read or write fails.                                                  *)
InitConc == InitTwo({TEST_EMAIL, "a@x.com"})

NextConc ==
    \E s \in Sessions :
        \/ \E e \in {TEST_EMAIL, "a@x.com"} : SetEmail(s, e, TRUE)
        \/ \E k \in LateSkills, v \in EditValues : Edit(s, k, v, TRUE)
        \/ ClickSubmit(s, TRUE)
        \/ SaveLoad(s, TRUE)
        \/ SaveWrite(s, TRUE)
        \/ Rerun(s, TRUE)

SpecConc == InitConc /\ [][NextConc]_vars

(* ------------------------------------------------------------------ claims *)
RowsBy(f, s) == SelectSeq(f, LAMBDA r : r.session = s)
KeptIn(f, g) == \A i \in 1..Len(f) : \E j \in 1..Len(g) : g[j] = f[i]
Editing(s) == Idle(s) /\ ss[s].view = "form"

(* C1: while the form is shown, the ceiling a number input offers is        *)
(* min(10, 90 - (total_points - current value)), and for every v in 0..10   *)
(* other than the current value the edit to v is accepted exactly when      *)
(* total_points - current value + v <= 90.                                  *)
C1_CeilingIffBudget ==
    \A s \in Sessions : Editing(s) =>
        \A k \in Skills :
            /\ ss[s].max_value[k] =
                  Min(MAX_POINTS_PER_SKILL,
                      MAX_TOTAL_POINTS - (ss[s].total_points - ss[s].input[k]))
            /\ \A v \in 0..MAX_POINTS_PER_SKILL : v # ss[s].input[k] =>
                  (EditAccepted(s, k, v)
                     <=> ss[s].total_points - ss[s].input[k] + v <= MAX_TOTAL_POINTS)

(* C1 witness: a form whose totals agree and where the budget, not the      *)
(* per-skill maximum, sets the ceiling of an empty skill to a value between *)
(* 1 and 9.                                                                 *)
C1_Witness ==
    /\ Editing(1)
    /\ ss[1].total_points = SumOf(ss[1].input)
    /\ \E k \in Skills : /\ ss[1].input[k] = 0
                         /\ ss[1].max_value[k] > 0
                         /\ ss[1].max_value[k] < MAX_POINTS_PER_SKILL

(* C2: in every reachable state the session's total_points equals the sum   *)
(* of the values of its skills mapping.                                     *)
C2_TotalIsSum == \A s \in Sessions : ss[s].total_points = SumOf(ss[s].skills)

(* C3: the file changes only in the write of a session whose total_points   *)
(* is 90; and a submit click whose run reaches the submit handler with any  *)
(* other total leaves the file as it is, starts no save and reports the     *)
(* total mismatch.                                                          *)
C3_AppendOnlyAtTotal ==
    [][/\ file' # file =>
            \E s \in Sessions : /\ ss[s].pc = "write"
                                /\ ss[s].total_points = MAX_TOTAL_POINTS
                                /\ ss'[s].save_result = "ok"
                                /\ file' = to_csv(responses_df[s], response_data[s])
       /\ \A s \in Sessions :
            ( /\ ClickSubmit(s, TRUE)
              /\ ss[s].total_points # MAX_TOTAL_POINTS
              /\ is_email_unique(ss[s].submitter_email, file, TRUE) )
            => /\ file' = file
               /\ ss'[s].pc = "idle"
               /\ ss'[s].error = "total"]_vars

(* C3 witness: a record has been appended for a session whose total is 90.  *)
C3_Witness ==
    /\ ss[1].save_result = "ok"
    /\ ss[1].total_points = MAX_TOTAL_POINTS
    /\ Len(file) = 1
    /\ file[1].session = 1

(* C4: a save never appends a record whose email is not the exempt address  *)
(* and already appears in the file.                                         *)
C4_DuplicateRejected ==
    [][\A s \in Sessions :
          (ss[s].pc = "write" /\ file' # file)
          => \/ response_data[s].email = TEST_EMAIL
             \/ \A i \in 1..Len(file) : file[i].email # response_data[s].email]_vars

(* C5: every row of the file is still in the file, with the same values,    *)
(* after every step of every session.                                       *)
C5_RecordsKept == [][KeptIn(file, file')]_vars

(* C6: a session that passed is_email_unique at the start of its submit run *)
(* is accepted when its write is done, whatever the file holds by then: its *)
(* record is the last row of the file and form_submitted is set.            *)
C6_PassedCheckIsAccepted ==
    [][\A s \in Sessions :
          (ss[s].pc = "write" /\ ss'[s].pc # "write")
          => /\ ss'[s].form_submitted
             /\ Len(file') >= 1
             /\ file'[Len(file')] = FormatRow(response_data[s])]_vars

(* C6 witness: two sessions with the same non-exempt email have both been   *)
(* accepted and both records are in the file.                               *)
C6_Witness ==
    /\ Len(file) = 2
    /\ file[1].email = file[2].email
    /\ file[1].email # TEST_EMAIL
    /\ file[1].session # file[2].session
    /\ \A s \in Sessions : ss[s].form_submitted /\ Idle(s)

(* C7: form_submitted becomes true only in the step in which save_response  *)
(* has written the file and returned True; when save_response returns       *)
(* False, form_submitted stays false, the skills, the inputs, the total and *)
(* the file are unchanged, the error is shown and the form is still there.  *)
C7_LeaveOnlyAfterSave ==
    [][\A s \in Sessions :
          /\ (~ss[s].form_submitted /\ ss'[s].form_submitted)
             => /\ ss[s].pc = "write"
                /\ ss'[s].save_result = "ok"
                /\ file' = to_csv(responses_df[s], response_data[s])
          /\ (ss[s].pc = "write" /\ ss'[s].save_result = "failed")
             => /\ ~ss'[s].form_submitted
                /\ ss'[s].skills = ss[s].skills
                /\ ss'[s].input = ss[s].input
                /\ ss'[s].total_points = ss[s].total_points
                /\ ss'[s].error = "save"
                /\ ss'[s].view = "form"
                /\ ss'[s].pc = "idle"
                /\ file' = file]_vars

(* C7 witness: save_response has returned False for a session with 90       *)
(* points, which is back in the form.                                       *)
C7_Witness ==
    /\ ss[1].save_result = "failed"
    /\ Editing(1)
    /\ ss[1].total_points = MAX_TOTAL_POINTS
    /\ SumOf(ss[1].skills) = MAX_TOTAL_POINTS
    /\ ~ss[1].form_submitted

(* C8: whatever save_response returns, the rows that were in the file when  *)
(* its write step starts are in the file afterwards.                        *)
C8_SaveKeepsRecords ==
    [][\A s \in Sessions : ss[s].pc = "write" => KeptIn(file, file')]_vars

(* C9: the render that follows an accepted submission shows the thank-you   *)
(* state.                                                                   *)
C9_ThanksAfterAccept ==
    \A s \in Sessions : (Idle(s) /\ ss[s].save_result = "ok") => ss[s].view = "thanks"

(* C10 as stated: the file never holds more than one record of a session.   *)
C10_OneRecordPerSession == \A s \in Sessions : Len(RowsBy(file, s)) <= 1

(* C10 amended: while form_submitted is set, the session's skills and total *)
(* do not change and no record of the session is added to the file; and     *)
(* form_submitted is cleared only by Close Survey.                          *)
C10_NoChangeWhileSubmitted ==
    [][\A s \in Sessions : ss[s].form_submitted =>
          /\ ss'[s].form_submitted
             => /\ ss'[s].skills = ss[s].skills
                /\ ss'[s].total_points = ss[s].total_points
                /\ RowsBy(file', s) = RowsBy(file, s)
          /\ ~ss'[s].form_submitted => ss'[s].view = "closed"]_vars

(* C10 witness: the session is in the submitted state for the second time,  *)
(* after Close Survey and a second accepted submission.                     *)
C10_Witness ==
    /\ ss[1].form_submitted
    /\ ss[1].view = "thanks"
    /\ Len(RowsBy(file, 1)) = 2

(* C11: in every reachable state every value of the skills mapping and of   *)
(* the number inputs is an integer from 0 to 10, and a number input on the  *)
(* page takes no typed value outside 0..10.                                 *)
C11_ValuesInRange ==
    \A s \in Sessions : \A k \in Skills :
        /\ ss[s].skills[k] \in 0..MAX_POINTS_PER_SKILL
        /\ ss[s].input[k] \in 0..MAX_POINTS_PER_SKILL
        /\ \A v \in TypedValues :
              EditAccepted(s, k, v) => (0 <= v /\ v <= MAX_POINTS_PER_SKILL)

(* C11 witness: after edits one skill holds 10 with most of the budget      *)
(* left, and the form takes neither 11 for it nor -1 for an empty skill.    *)
C11_Witness ==
    /\ Editing(1)
    /\ ss[1].total_points < MAX_TOTAL_POINTS - MAX_POINTS_PER_SKILL
    /\ \E k, j \in Skills :
          /\ ss[1].skills[k] = MAX_POINTS_PER_SKILL
          /\ ss[1].max_value[k] = MAX_POINTS_PER_SKILL
          /\ ~EditAccepted(1, k, MAX_POINTS_PER_SKILL + 1)
          /\ ss[1].skills[j] = 0
          /\ ~EditAccepted(1, j, 0 - 1)
          /\ EditAccepted(1, j, MAX_POINTS_PER_SKILL)

(* C12: in every reachable state total_points, the sum of the number inputs *)
(* and the sum of the skills mapping are at most 90; and while total_points *)
(* is 90 the form accepts an edit only if it lowers the field.              *)
C12_TotalWithinBudget ==
    \A s \in Sessions :
        /\ ss[s].total_points <= MAX_TOTAL_POINTS
        /\ SumOf(ss[s].input) <= MAX_TOTAL_POINTS
        /\ SumOf(ss[s].skills) <= MAX_TOTAL_POINTS
        /\ (Editing(s) /\ ss[s].total_points = MAX_TOTAL_POINTS)
           => \A k \in Skills : \A v \in TypedValues :
                 EditAccepted(s, k, v) => v < ss[s].input[k]

(* C12 witness: 90 points are allocated after an edit of a late skill; an   *)
(* empty skill is offered no point, and any field can still be lowered.     *)
C12_Witness ==
    /\ Editing(1)
    /\ ss[1].total_points = MAX_TOTAL_POINTS
    /\ SumOf(ss[1].input) = MAX_TOTAL_POINTS
    /\ \E k \in Skills, j \in LateSkills :
          /\ ss[1].input[k] = 0
          /\ ss[1].max_value[k] = 0
          /\ ~EditAccepted(1, k, 1)
          /\ ss[1].input[j] > 0
          /\ EditAccepted(1, j, ss[1].input[j] - 1)

C14_RejectedSubmitKeepsForm ==
    [][\A s \in Sessions :
          (ClickSubmit(s, TRUE) /\ ss'[s].pc = "idle")
          => /\ ss'[s].skills = ss[s].skills
             /\ ss'[s].input = ss[s].input
             /\ ss'[s].total_points = ss[s].total_points
             /\ file' = file
             /\ ss'[s].view = "form"]_vars

(* C15: the step that takes a session out of the submitted state leaves     *)
(* every skill value, every number input and total_points at 0, and they    *)
(* stay 0 until the form is shown again: the first form after an accepted   *)
(* submission is all zero with total 0.                                     *)
C15_ResetAfterSubmission ==
    [][\A s \in Sessions :
          /\ (ss[s].form_submitted /\ ~ss'[s].form_submitted)
             => /\ ss'[s].skills = ZeroAlloc
                /\ ss'[s].input = ZeroAlloc
                /\ ss'[s].total_points = 0
                /\ ~Editing(s)'
          /\ ( /\ ~Editing(s)
               /\ ~ss[s].form_submitted
               /\ ss[s].skills = ZeroAlloc
               /\ ss[s].input = ZeroAlloc
               /\ ss[s].total_points = 0 )
             => /\ ss'[s].skills = ZeroAlloc
                /\ ss'[s].input = ZeroAlloc
                /\ ss'[s].total_points = 0]_vars

(* C15 witness: the form is shown again after an accepted submission and a  *)
(* Close Survey: the session's record is in the file, every field is 0 and  *)
(* offers the full 10 points, and the total is 0.                           *)
C15_Witness ==
    /\ Editing(1)
    /\ Len(RowsBy(file, 1)) = 1
    /\ SumOf(file[1].skills) = MAX_TOTAL_POINTS
    /\ ss[1].skills = ZeroAlloc
    /\ ss[1].input = ZeroAlloc
    /\ ss[1].total_points = 0
    /\ \A k \in Skills : ss[1].max_value[k] = MAX_POINTS_PER_SKILL

(* C16: after a write of save_response, load_responses returns as its last  *)
(* row the record that was passed in, with the same name, email and value   *)
(* of every skill, and before it the rows that save_response had loaded.    *)
C16_RoundTrip ==
    [][\A s \in Sessions :
          (ss[s].pc = "write" /\ ss'[s].pc # "write" /\ file' # file)
          => LET df == load_responses(file', TRUE)
             IN  /\ Len(df) = Len(responses_df[s]) + 1
                 /\ df[Len(df)].name = response_data[s].name
                 /\ df[Len(df)].email = response_data[s].email
                 /\ df[Len(df)].skills = response_data[s].skills
                 /\ \A i \in 1..Len(responses_df[s]) : df[i] = responses_df[s][i]]_vars

(* C17: the label the form shows beside a skill that holds v points is      *)
(* Primary for v in 8..10, Secondary for v in 3..7, Limited for v in 1..2   *)
(* and empty for v = 0.                                                     *)
C17_LevelByThresholds ==
    \A s \in Sessions : Editing(s) =>
        \A k \in Skills :
            LET v == ss[s].skills[k]
                l == ss[s].level[k]
            IN  /\ v \in 8..10 => l = "Primary"
                /\ v \in 3..7 => l = "Secondary"
                /\ v \in 1..2 => l = "Limited"
                /\ v = 0 => l = ""
                /\ v \in 0..10

(* C17 witness: the form shows a skill at 2 (Limited), one at 3             *)
(* (Secondary) and one at 0 (no label).                                     *)
C17_Witness ==
    /\ Editing(1)
    /\ \E i, j, k \in Skills :
          /\ ss[1].skills[i] = 2 /\ ss[1].level[i] = "Limited"
          /\ ss[1].skills[j] = 3 /\ ss[1].level[j] = "Secondary"
          /\ ss[1].skills[k] = 0 /\ ss[1].level[k] = ""

(* C18: on the admin page, the counts of get_expertise_counts for every     *)
(* response, and the counts behind the top-skills table for every skill,    *)
(* are for each tier the number of values that get_expertise_level puts in  *)
(* that tier.                                                               *)
C18_TiersAgree ==
    \A s \in Sessions : (Idle(s) /\ ss[s].view = "admin") =>
        LET df == load_responses(file, TRUE)
            d == ss[s].dashboard
        IN  /\ Len(d.dist) = Len(df)
            /\ \A i \in 1..Len(df) : \A t \in Tiers :
                  d.dist[i][t] =
                     Cardinality({k \in Skills : get_expertise_level(df[i].skills[k]) = t})
            /\ \A k \in Skills : \A t \in Tiers :
                  d.top[k][t] =
                     Cardinality({i \in 1..Len(df) : get_expertise_level(df[i].skills[k]) = t})

(* C18 witness: the admin page shows a response that has one Limited skill  *)
(* and Primary skills, which both tables count.                             *)
C18_Witness ==
    /\ Idle(1)
    /\ ss[1].view = "admin"
    /\ Len(ss[1].dashboard.dist) = 1
    /\ ss[1].dashboard.dist[1].Limited = 1
    /\ ss[1].dashboard.dist[1].Primary >= 1
    /\ \E k, j \in Skills : /\ ss[1].dashboard.top[k].Limited = 1
                             /\ ss[1].dashboard.top[j].Primary = 1

(* C19: every row of the file has skill values from 0 to 10 that sum to 90. *)
C19_StoredRecordsSumTo90 ==
    \A i \in 1..Len(file) :
        /\ SumOf(file[i].skills) = MAX_TOTAL_POINTS
        /\ \A k \in Skills : file[i].skills[k] \in 0..MAX_POINTS_PER_SKILL
====
